---- MODULE Spec2Model ----
(***************************************************************************)
(* VaultService (packages/services/src/Domain/Vaults/VaultService.ts):     *)
(* the vault lifecycle and key-locking manager.  The service owns one      *)
(* piece of mutable state, the lock map; the item index, the key store,    *)
(* the use cases and the synchronizer are collaborators whose effects are  *)
(* modelled as far as the service observes them.                           *)
(***************************************************************************)
EXTENDS Integers, Sequences, FiniteSets, TLC

\* ------------------------------------------------------------------ bounds
NumVaults == 2
NumItems == 1

VaultIds == 1..NumVaults
ItemIds == 1..NumItems

\* ------------------------------------------------------- enums of the code
\* KeySystemRootKeyStorageMode: the service tells Synced from the modes that
\* are not synced, for which Local stands
StorageModes == {"Synced", "Local"}
\* KeySystemRootKeyPasswordType
PasswordTypes == {"Randomized", "UserInputted"}
\* passwords a caller can type: the one the vault's root key was derived
\* from, and another one
Passwords == {"correct", "wrong"}
\* VaultServiceEvent
VaultLocked == "VaultLocked"
VaultUnlocked == "VaultUnlocked"
VaultRootKeyRotated == "VaultRootKeyRotated"

NoListing == [state |-> "none"]
DeletedListing == [state |-> "deleted"]
NoVault == 0
Idle == [pc |-> "idle"]

VARIABLES
    listing,     \* ItemIndex: the VaultListing item of each vault id
    rootKey,     \* KeyStore: primary root key per key-system identifier
    itemsKey,    \* KeyStore: whether a decrypted items key is present
    itemVault,   \* ItemIndex: key_system_identifier of each ordinary item
    lockMap,     \* VaultService.lockMap (a Map: a function on the set keys)
    unlockTask,  \* an unlockNonPersistentVault call suspended at its await
    addTask,     \* an addItemToVault call suspended in removeItemFromVault
    last         \* what the last step did: call, result, events, use cases

vars == <<listing, rootKey, itemsKey, itemVault, lockMap, unlockTask, addTask, last>>

\* ------------------------------------------------------------ vault listing
Listing(storage, pwType, shared) ==
    [state |-> "listed", keyStorageMode |-> storage, keyPasswordType |-> pwType,
     shared |-> shared]

IsListed(v) == listing[v].state = "listed"

\* vault.isSharedVaultListing()
isSharedVaultListing(v) == listing[v].shared

\* VaultService.getVaults: the listings of the index, sorted; the model's
\* names are ordered as the vault ids are
RECURSIVE SortedSeq(_)
SortedSeq(S) ==
    IF S = {} THEN <<>>
    ELSE LET m == CHOOSE x \in S : \A y \in S : x <= y
         IN <<m>> \o SortedSeq(S \ {m})

getVaults == SortedSeq({v \in VaultIds : IsListed(v)})

\* GetVaultUseCase.execute: the listing with this key-system identifier
getVault(ksi) == IF ksi \in VaultIds /\ IsListed(ksi) THEN ksi ELSE NoVault

\* VaultService.getItemVault
getItemVault(i) ==
    IF itemVault[i] = NoVault THEN NoVault ELSE getVault(itemVault[i])

\* VaultService.isItemInVault
isItemInVault(i) == itemVault[i] # NoVault

\* ------------------------------------------------------------------ lock map
\* isVaultLocked that takes a vault without an entry for locked
isVaultLocked_FailClosed(v) == v \notin DOMAIN lockMap \/ lockMap[v] = TRUE

\* VaultService.isVaultLocked: this.lockMap.get(vault.uuid) === true
isVaultLocked(v) == v \in DOMAIN lockMap /\ lockMap[v] = TRUE

\* Map.set(uuid, b)
LockMapSet(m, v, b) == [x \in (DOMAIN m) \cup {v} |-> IF x = v THEN b ELSE m[x]]

\* this.lockMap.get(vault.uuid) !== locked
LockMapDiffers(m, v, locked) == ~(v \in DOMAIN m /\ m[v] = locked)

\* getLockedvaults that keeps every vault the lock map does not hold unlocked
getLockedvaults_NotUnlocked ==
    SelectSeq(getVaults, LAMBDA v : LockMapDiffers(lockMap, v, FALSE))

\* VaultService.getLockedvaults: getVaults() filtered by isVaultLocked
getLockedvaults == SelectSeq(getVaults, LAMBDA v : isVaultLocked(v))

\* ----------------------------------------------------------------- key store
\* encryption.keys.getPrimaryKeySystemRootKey(id) is defined
rootKeyPresent(v) == rootKey[v] # "none"

\* encryption.keys.getPrimaryKeySystemItemsKey(id) is defined
itemsKeyPresent(v) == itemsKey[v]

\* computeVaultLockState that forgets the items key
ComputeLockState_RootKeyOnly(rk, ik, v) ==
    IF rk[v] = "none" THEN "locked" ELSE "unlocked"

\* computeVaultLockState that forgets the root key
ComputeLockState_ItemsKeyOnly(rk, ik, v) ==
    IF ~ik[v] THEN "locked" ELSE "unlocked"

\* VaultService.computeVaultLockState, on a key store (rk, ik)
ComputeLockState(rk, ik, v) ==
    IF rk[v] = "none" THEN "locked"
    ELSE IF ~ik[v] THEN "locked"
    ELSE "unlocked"

computeVaultLockState(v) == ComputeLockState(rootKey, itemsKey, v)

\* encryption.deriveUserInputtedKeySystemRootKey: the password the root key
\* parameters were made with derives the vault's root key, any other a key
\* that decrypts nothing
deriveUserInputtedKeySystemRootKey(password) ==
    IF password = "correct" THEN "good" ELSE "bad"

\* ---------------------------------------------------------------- last step
\* an event with its payload, emitted after the first n collaborator calls
\* of the step have completed
EventAfter(type, v, n) == [type |-> type, vault |-> v, after |-> n]

\* an event of a step that calls no collaborator before it emits
Event(type, v) == EventAfter(type, v, 0)

\* what a call got besides the vault: its arguments and, where a claim asks
\* for it, the lock-map entry of the vault when the call was made
NoArg == [kind |-> "none"]
ItemArg(i, from) == [kind |-> "item", item |-> i, from |-> from]
LockArg(before) == [kind |-> "lock", before |-> before]
PasswordArg(p, before) == [kind |-> "password", password |-> p, before |-> before]
DeleteArg(error) == [kind |-> "delete", useCaseError |-> error]
OptionsArg(pwType, storage) ==
    [kind |-> "options", newPasswordType |-> pwType, newStorageMode |-> storage]

\* this.lockMap.get(vault.uuid), as a word
LockMapEntry(v) ==
    IF v \notin DOMAIN lockMap THEN "undefined"
    ELSE IF lockMap[v] THEN "locked" ELSE "unlocked"

\* the errors the service throws
ErrAddLocked == "Attempting to add item to locked vault"
ErrNotInVault == "Item does not belong to any vault"
ErrRemoveLocked == "Attempting to remove item from locked vault"
ErrSharedDelete == "Shared vault must be deleted through SharedVaultService"
ErrRotateLocked == "Cannot rotate root key of locked vault"
ErrOptionsLocked == "Attempting to change vault options on a locked vault"
ErrLockSynced == "Vault uses synced root key and cannot be locked"
ErrUnlockRandomized ==
    "Vault uses randomized password and cannot be unlocked with user inputted password"
ErrUnlockSynced ==
    "Vault uses synced root key and cannot be unlocked with user inputted password"

Errors ==
    {ErrAddLocked, ErrNotInVault, ErrRemoveLocked, ErrSharedDelete, ErrRotateLocked,
     ErrOptionsLocked, ErrLockSynced, ErrUnlockRandomized, ErrUnlockSynced}

\* one step of the service: the call, what it returned or threw, the events
\* it emitted and the collaborator calls (use cases, sync) it made, in order
Step(op, v, arg, ret, events, calls) ==
    [op |-> op, vault |-> v, arg |-> arg, ret |-> ret, events |-> events,
     calls |-> calls]

Threw(step) == step.ret \in Errors

Init ==
    /\ listing = [v \in VaultIds |-> NoListing]
    /\ rootKey = [v \in VaultIds |-> "none"]
    /\ itemsKey = [v \in VaultIds |-> FALSE]
    /\ itemVault = [i \in ItemIds |-> NoVault]
    /\ lockMap = <<>>
    /\ unlockTask = Idle
    /\ addTask = Idle
    /\ last = Step("init", NoVault, NoArg, "ok", <<>>, <<>>)

\* ------------------------------------------------------------------ creation
\* a new listing gets a fresh uuid and key-system identifier: the next id
\* no listing has had
IsFresh(v) == listing[v] = NoListing /\ \A u \in VaultIds : u < v => listing[u] # NoListing

\* CreateVaultUseCase: a new listing with its root key and items key in the
\* key store
CreateVault(v, storage, pwType, op) ==
    /\ IsFresh(v)
    /\ listing' = [listing EXCEPT ![v] = Listing(storage, pwType, FALSE)]
    /\ rootKey' = [rootKey EXCEPT ![v] = "good"]
    /\ itemsKey' = [itemsKey EXCEPT ![v] = TRUE]
    /\ last' = Step(op, v, NoArg, "ok", <<>>, <<"CreateVault">>)
    /\ UNCHANGED <<itemVault, lockMap, unlockTask, addTask>>

\* VaultService.createRandomizedVault
createRandomizedVault ==
    \E v \in VaultIds, storage \in StorageModes :
        CreateVault(v, storage, "Randomized", "createRandomizedVault")

\* VaultService.createUserInputtedPasswordVault
createUserInputtedPasswordVault ==
    \E v \in VaultIds, storage \in StorageModes :
        CreateVault(v, storage, "UserInputted", "createUserInputtedPasswordVault")

\* a listing shared through the shared-vault service reaches the index
\* (shared vaults keep a randomized, synced root key)
SharedVaultArrives ==
    \E v \in VaultIds :
        /\ IsFresh(v)
        /\ listing' = [listing EXCEPT ![v] = Listing("Synced", "Randomized", TRUE)]
        /\ rootKey' = [rootKey EXCEPT ![v] = "good"]
        /\ itemsKey' = [itemsKey EXCEPT ![v] = TRUE]
        /\ last' = Step("SharedVaultArrives", v, NoArg, "ok", <<>>, <<>>)
        /\ UNCHANGED <<itemVault, lockMap, unlockTask, addTask>>

\* ------------------------------------------------- key store operations
\* encryption.keys.clearMemoryOfKeysRelatedToVault(vault): the root key and
\* the decrypted items key of the vault leave the key store
ClearRootKey(rk, v) == [rk EXCEPT ![v] = "none"]
ClearItemsKey(ik, v) == [ik EXCEPT ![v] = FALSE]

\* encryption.keys.intakeNonPersistentKeySystemRootKey(key, mode): the key
\* becomes the primary root key of its key-system identifier
intakeNonPersistentKeySystemRootKey(rk, v, key) == [rk EXCEPT ![v] = key]

\* encryption.keys.undoIntakeNonPersistentKeySystemRootKey(systemIdentifier)
undoIntakeNonPersistentKeySystemRootKey(rk, v) == [rk EXCEPT ![v] = "none"]

\* encryption.decryptErroredPayloads(): an items key that could not be
\* decrypted is decrypted once the vault's true root key is in the store
decryptErroredPayloads(rk, ik) ==
    [v \in VaultIds |-> ik[v] \/ (IsListed(v) /\ rk[v] = "good")]

\* ------------------------------------------------------------------- lock
\* lockNonPersistentVault that marks the vault locked and leaves its keys
LockOutcome_KeepsKeys(v) ==
    IF listing[v].keyStorageMode = "Synced"
    THEN [ret |-> ErrLockSynced, root |-> rootKey, items |-> itemsKey,
          map |-> lockMap, events |-> <<>>]
    ELSE [ret |-> "ok", root |-> rootKey, items |-> itemsKey,
          map |-> LockMapSet(lockMap, v, TRUE),
          events |-> <<Event(VaultLocked, v)>>]

\* lockNonPersistentVault that clears the keys before it checks the mode
LockOutcome_ClearsBeforeCheck(v) ==
    IF listing[v].keyStorageMode = "Synced"
    THEN [ret |-> ErrLockSynced, root |-> ClearRootKey(rootKey, v),
          items |-> ClearItemsKey(itemsKey, v), map |-> lockMap, events |-> <<>>]
    ELSE [ret |-> "ok", root |-> ClearRootKey(rootKey, v),
          items |-> ClearItemsKey(itemsKey, v),
          map |-> LockMapSet(lockMap, v, TRUE),
          events |-> <<Event(VaultLocked, v)>>]

\* lockNonPersistentVault(vault): what it throws or does to the key store
\* and the lock map, and the events it emits
LockOutcome(v) ==
    IF listing[v].keyStorageMode = "Synced"
    THEN [ret |-> ErrLockSynced, root |-> rootKey, items |-> itemsKey,
          map |-> lockMap, events |-> <<>>]
    ELSE [ret |-> "ok", root |-> ClearRootKey(rootKey, v),
          items |-> ClearItemsKey(itemsKey, v),
          map |-> LockMapSet(lockMap, v, TRUE),
          events |-> <<Event(VaultLocked, v)>>]

\* VaultService.lockNonPersistentVault
lockNonPersistentVault ==
    \E v \in VaultIds :
        /\ IsListed(v)
        /\ LET r == LockOutcome(v)
           IN /\ rootKey' = r.root
              /\ itemsKey' = r.items
              /\ lockMap' = r.map
              /\ last' = Step("lockNonPersistentVault", v, LockArg(LockMapEntry(v)),
                              r.ret, r.events, <<>>)
        /\ UNCHANGED <<listing, itemVault, unlockTask, addTask>>

\* ----------------------------------------------------------------- unlock
\* the guards of unlockNonPersistentVault without the password-type guard
UnlockGuard_SyncedOnly(v) ==
    IF listing[v].keyStorageMode = "Synced" THEN ErrUnlockSynced ELSE "ok"

\* the guards of unlockNonPersistentVault: the error it throws, or "ok"
UnlockGuard(v) ==
    IF listing[v].keyPasswordType # "UserInputted" THEN ErrUnlockRandomized
    ELSE IF listing[v].keyStorageMode = "Synced" THEN ErrUnlockSynced
    ELSE "ok"

\* unlockNonPersistentVault that returns true without writing the lock map
UnlockResume_NoLockMapWrite(rk, ik, m, v) ==
    IF ComputeLockState(rk, ik, v) = "locked"
    THEN [root |-> undoIntakeNonPersistentKeySystemRootKey(rk, v), map |-> m,
          ret |-> "false", events |-> <<>>]
    ELSE [root |-> rk, map |-> m,
          ret |-> "true", events |-> <<Event(VaultUnlocked, v)>>]

\* unlockNonPersistentVault that marks the vault locked when it fails
UnlockResume_LocksOnFailure(rk, ik, m, v) ==
    IF ComputeLockState(rk, ik, v) = "locked"
    THEN [root |-> undoIntakeNonPersistentKeySystemRootKey(rk, v),
          map |-> LockMapSet(m, v, TRUE), ret |-> "false",
          events |-> <<Event(VaultLocked, v)>>]
    ELSE [root |-> rk, map |-> LockMapSet(m, v, FALSE),
          ret |-> "true", events |-> <<Event(VaultUnlocked, v)>>]

\* unlockNonPersistentVault that writes the lock map before it looks at
\* the lock state
UnlockResume_WritesBeforeCheck(rk, ik, m, v) ==
    IF ComputeLockState(rk, ik, v) = "locked"
    THEN [root |-> undoIntakeNonPersistentKeySystemRootKey(rk, v),
          map |-> LockMapSet(m, v, FALSE), ret |-> "false", events |-> <<>>]
    ELSE [root |-> rk, map |-> LockMapSet(m, v, FALSE),
          ret |-> "true", events |-> <<Event(VaultUnlocked, v)>>]

\* unlockNonPersistentVault after its await: the lock state computed on the
\* key store (rk, ik) decides between undoing the intake and unlocking
UnlockResume(rk, ik, m, v) ==
    IF ComputeLockState(rk, ik, v) = "locked"
    THEN [root |-> undoIntakeNonPersistentKeySystemRootKey(rk, v), map |-> m,
          ret |-> "false", events |-> <<>>]
    ELSE [root |-> rk, map |-> LockMapSet(m, v, FALSE),
          ret |-> "true", events |-> <<Event(VaultUnlocked, v)>>]

\* VaultService.unlockNonPersistentVault, run from call to return with
\* nothing scheduled in between
unlockNonPersistentVault ==
    \E v \in VaultIds, password \in Passwords :
        /\ IsListed(v)
        /\ unlockTask = Idle
        /\ IF UnlockGuard(v) # "ok"
           THEN /\ last' = Step("unlockNonPersistentVault", v,
                                PasswordArg(password, LockMapEntry(v)),
                                UnlockGuard(v), <<>>, <<>>)
                /\ UNCHANGED <<rootKey, itemsKey, lockMap>>
           ELSE LET derivedRootKey == deriveUserInputtedKeySystemRootKey(password)
                    rk == intakeNonPersistentKeySystemRootKey(rootKey, v, derivedRootKey)
                    ik == decryptErroredPayloads(rk, itemsKey)
                    r == UnlockResume(rk, ik, lockMap, v)
                IN /\ rootKey' = r.root
                   /\ itemsKey' = ik
                   /\ lockMap' = r.map
                   /\ last' = Step("unlockNonPersistentVault", v,
                                   PasswordArg(password, LockMapEntry(v)),
                                   r.ret, r.events, <<>>)
        /\ UNCHANGED <<listing, itemVault, unlockTask, addTask>>

\* ------------------------------------------------------------- recompute
\* a pass of recomputeAllVaultsLockingState that stops after the first vault
RecomputeLoop_HeadOnly(vaults, m, events) ==
    IF vaults = <<>> THEN [map |-> m, events |-> events]
    ELSE LET vault == Head(vaults)
             locked == computeVaultLockState(vault) = "locked"
         IN IF LockMapDiffers(m, vault, locked)
            THEN [map |-> LockMapSet(m, vault, locked),
                  events |-> Append(events,
                      Event(IF locked THEN VaultLocked ELSE VaultUnlocked, vault))]
            ELSE [map |-> m, events |-> events]

\* a pass of recomputeAllVaultsLockingState that writes the lock map and
\* emits for every vault, changed or not
RECURSIVE RecomputeLoop_AlwaysEmits(_, _, _)
RecomputeLoop_AlwaysEmits(vaults, m, events) ==
    IF vaults = <<>> THEN [map |-> m, events |-> events]
    ELSE LET vault == Head(vaults)
             locked == computeVaultLockState(vault) = "locked"
         IN RecomputeLoop_AlwaysEmits(Tail(vaults), LockMapSet(m, vault, locked),
                Append(events, Event(IF locked THEN VaultLocked ELSE VaultUnlocked, vault)))

\* the loop of recomputeAllVaultsLockingState over the vaults still to visit
RECURSIVE RecomputeLoop(_, _, _)
RecomputeLoop(vaults, m, events) ==
    IF vaults = <<>> THEN [map |-> m, events |-> events]
    ELSE LET vault == Head(vaults)
             locked == computeVaultLockState(vault) = "locked"
         IN IF LockMapDiffers(m, vault, locked)
            THEN RecomputeLoop(Tail(vaults), LockMapSet(m, vault, locked),
                     Append(events, Event(IF locked THEN VaultLocked ELSE VaultUnlocked, vault)))
            ELSE RecomputeLoop(Tail(vaults), m, events)

\* the observer of KeySystemItemsKey, KeySystemRootKey and VaultListing
\* items runs recomputeAllVaultsLockingState
recomputeAllVaultsLockingState ==
    LET r == RecomputeLoop(getVaults, lockMap, <<>>)
    IN /\ lockMap' = r.map
       /\ last' = Step("recomputeAllVaultsLockingState", NoVault, NoArg, "ok",
                       r.events, <<>>)
       /\ UNCHANGED <<listing, rootKey, itemsKey, itemVault, unlockTask, addTask>>

\* ------------------------------------------------------------ environment
\* key material changes outside the service: a sync brings keys, another
\* component clears them
ExternalKeyChange ==
    \E v \in VaultIds, rk \in {"none", "good"}, ik \in BOOLEAN :
        /\ IsListed(v)
        /\ <<rk, ik>> # <<rootKey[v], itemsKey[v]>>
        /\ rootKey' = [rootKey EXCEPT ![v] = rk]
        /\ itemsKey' = [itemsKey EXCEPT ![v] = ik]
        /\ last' = Step("ExternalKeyChange", v, NoArg, "ok", <<>>, <<>>)
        /\ UNCHANGED <<listing, itemVault, lockMap, unlockTask, addTask>>

\* ------------------------------------------------------------- use cases
\* AddItemsToVaultUseCase.execute({vault, items: [item]})
AddItemsToVaultUseCase(iv, v, i) == [iv EXCEPT ![i] = v]

\* RemoveItemFromVault.execute({item})
RemoveItemFromVaultUseCase(iv, i) == [iv EXCEPT ![i] = NoVault]

\* ------------------------------------------------------------ membership
\* removeItemFromVault(item): what it throws or returns, the item index
\* after it and the use cases it ran
RemoveOutcome(i) ==
    IF getItemVault(i) = NoVault
    THEN [ret |-> ErrNotInVault, iv |-> itemVault, calls |-> <<>>]
    ELSE IF isVaultLocked(getItemVault(i))
    THEN [ret |-> ErrRemoveLocked, iv |-> itemVault, calls |-> <<>>]
    ELSE [ret |-> "ok", iv |-> RemoveItemFromVaultUseCase(itemVault, i),
          calls |-> <<"RemoveItemFromVault">>]

\* VaultService.removeItemFromVault
removeItemFromVault ==
    \E i \in ItemIds :
        /\ addTask = Idle
        /\ LET r == RemoveOutcome(i)
           IN /\ itemVault' = r.iv
              /\ last' = Step("removeItemFromVault", getItemVault(i), ItemArg(i, getItemVault(i)),
                              r.ret, <<>>, r.calls)
        /\ UNCHANGED <<listing, rootKey, itemsKey, lockMap, unlockTask, addTask>>

\* addItemToVault that overwrites the item's vault without removing it first
AddOutcome_Overwrites(v, i) ==
    IF isVaultLocked(v)
    THEN [ret |-> ErrAddLocked, iv |-> itemVault, calls |-> <<>>]
    ELSE [ret |-> "ok", iv |-> AddItemsToVaultUseCase(itemVault, v, i),
          calls |-> <<"AddItemsToVault">>]

\* addItemToVault(vault, item), run from call to return with nothing
\* scheduled in between: what it throws or returns, the item index after it
\* and the use cases it ran, in order
AddOutcome(v, i) ==
    IF isVaultLocked(v)
    THEN [ret |-> ErrAddLocked, iv |-> itemVault, calls |-> <<>>]
    ELSE IF getItemVault(i) # NoVault
    THEN LET removed == RemoveOutcome(i)
         IN IF removed.ret # "ok"
            THEN removed
            ELSE [ret |-> "ok", iv |-> AddItemsToVaultUseCase(removed.iv, v, i),
                  calls |-> removed.calls \o <<"AddItemsToVault">>]
    ELSE [ret |-> "ok", iv |-> AddItemsToVaultUseCase(itemVault, v, i),
          calls |-> <<"AddItemsToVault">>]

\* VaultService.addItemToVault
addItemToVault ==
    \E v \in VaultIds, i \in ItemIds :
        /\ IsListed(v)
        /\ addTask = Idle
        /\ LET r == AddOutcome(v, i)
           IN /\ itemVault' = r.iv
              /\ last' = Step("addItemToVault", v, ItemArg(i, getItemVault(i)), r.ret, <<>>, r.calls)
        /\ UNCHANGED <<listing, rootKey, itemsKey, lockMap, unlockTask, addTask>>

\* -------------------------------------------------------------- deletion
\* deleteVault without the shared-vault check
DeleteOutcome_NoSharedCheck(v, useCaseError) ==
    IF useCaseError
    THEN [ret |-> "false", listing |-> listing, root |-> rootKey,
          items |-> itemsKey, calls |-> <<"DeleteVault">>]
    ELSE [ret |-> "true", listing |-> [listing EXCEPT ![v] = DeletedListing],
          root |-> ClearRootKey(rootKey, v), items |-> ClearItemsKey(itemsKey, v),
          calls |-> <<"DeleteVault", "sync">>]

\* deleteVault that synchronizes whatever the use case reported
DeleteOutcome_SyncsOnError(v, useCaseError) ==
    IF isSharedVaultListing(v)
    THEN [ret |-> ErrSharedDelete, listing |-> listing, root |-> rootKey,
          items |-> itemsKey, calls |-> <<>>]
    ELSE IF useCaseError
    THEN [ret |-> "false", listing |-> listing, root |-> rootKey,
          items |-> itemsKey, calls |-> <<"DeleteVault", "sync">>]
    ELSE [ret |-> "true", listing |-> [listing EXCEPT ![v] = DeletedListing],
          root |-> ClearRootKey(rootKey, v), items |-> ClearItemsKey(itemsKey, v),
          calls |-> <<"DeleteVault", "sync">>]

\* deleteVault(vault), where the Delete use case either reports a
\* displayable error and changes nothing (useCaseError), or removes the
\* vault's keys and its listing
DeleteOutcome(v, useCaseError) ==
    IF isSharedVaultListing(v)
    THEN [ret |-> ErrSharedDelete, listing |-> listing, root |-> rootKey,
          items |-> itemsKey, calls |-> <<>>]
    ELSE IF useCaseError
    THEN [ret |-> "false", listing |-> listing, root |-> rootKey,
          items |-> itemsKey, calls |-> <<"DeleteVault">>]
    ELSE [ret |-> "true", listing |-> [listing EXCEPT ![v] = DeletedListing],
          root |-> ClearRootKey(rootKey, v), items |-> ClearItemsKey(itemsKey, v),
          calls |-> <<"DeleteVault", "sync">>]

\* VaultService.deleteVault
deleteVault ==
    \E v \in VaultIds, useCaseError \in BOOLEAN :
        /\ IsListed(v)
        /\ LET r == DeleteOutcome(v, useCaseError)
           IN /\ listing' = r.listing
              /\ rootKey' = r.root
              /\ itemsKey' = r.items
              /\ last' = Step("deleteVault", v, DeleteArg(useCaseError), r.ret,
                              <<>>, r.calls)
        /\ UNCHANGED <<itemVault, lockMap, unlockTask, addTask>>

\* ------------------------------------------------------ listing changes
\* VaultService.changeVaultNameAndDescription
changeVaultNameAndDescription ==
    \E v \in VaultIds :
        /\ IsListed(v)
        /\ last' = Step("changeVaultNameAndDescription", v, NoArg, "ok", <<>>,
                        <<"changeItem", "sync">>)
        /\ UNCHANGED <<listing, rootKey, itemsKey, itemVault, lockMap, unlockTask, addTask>>

\* rotateVaultRootKey(vault): the Rotate use case puts a fresh root key and
\* the items key wrapped by it into the key store
RotateOutcome(v) ==
    IF computeVaultLockState(v) = "locked"
    THEN [ret |-> ErrRotateLocked, root |-> rootKey, items |-> itemsKey,
          events |-> <<>>, calls |-> <<>>]
    ELSE [ret |-> "ok", root |-> [rootKey EXCEPT ![v] = "good"],
          items |-> [itemsKey EXCEPT ![v] = TRUE],
          events |-> <<EventAfter(VaultRootKeyRotated, v, 1)>>,
          calls |-> <<"RotateVaultRootKey", "sync">>]

\* VaultService.rotateVaultRootKey
rotateVaultRootKey ==
    \E v \in VaultIds :
        /\ IsListed(v)
        /\ LET r == RotateOutcome(v)
           IN /\ rootKey' = r.root
              /\ itemsKey' = r.items
              /\ last' = Step("rotateVaultRootKey", v, NoArg, r.ret, r.events, r.calls)
        /\ UNCHANGED <<listing, itemVault, lockMap, unlockTask, addTask>>

\* the listing after ChangeVaultKeyOptionsUseCase.execute(dto)
ChangeVaultKeyOptionsUseCase(l, newPasswordType, newStorageMode) ==
    [l EXCEPT
        !.keyPasswordType = IF newPasswordType = "unset" THEN @ ELSE newPasswordType,
        !.keyStorageMode = IF newStorageMode = "unset" THEN @ ELSE newStorageMode]

\* changeVaultOptions that emits VaultRootKeyRotated whatever the DTO changes
ChangeOptionsOutcome_AlwaysEmits(v, newPasswordType, newStorageMode) ==
    IF isVaultLocked(v)
    THEN [ret |-> ErrOptionsLocked, listing |-> listing, events |-> <<>>,
          calls |-> <<>>]
    ELSE [ret |-> "ok",
          listing |-> [listing EXCEPT ![v] =
                          ChangeVaultKeyOptionsUseCase(@, newPasswordType, newStorageMode)],
          events |-> <<EventAfter(VaultRootKeyRotated, v, 1)>>,
          calls |-> <<"ChangeVaultKeyOptions">>]

\* changeVaultOptions(dto): the use case is awaited, then the event is
\* emitted if dto.newPasswordType is set
ChangeOptionsOutcome(v, newPasswordType, newStorageMode) ==
    IF isVaultLocked(v)
    THEN [ret |-> ErrOptionsLocked, listing |-> listing, events |-> <<>>,
          calls |-> <<>>]
    ELSE [ret |-> "ok",
          listing |-> [listing EXCEPT ![v] =
                          ChangeVaultKeyOptionsUseCase(@, newPasswordType, newStorageMode)],
          events |-> IF newPasswordType # "unset"
                     THEN <<EventAfter(VaultRootKeyRotated, v, 1)>> ELSE <<>>,
          calls |-> <<"ChangeVaultKeyOptions">>]

\* VaultService.changeVaultOptions, on the listing of a personal vault (the
\* options of a shared vault stay as they are); the DTO names the options
\* that change
changeVaultOptions ==
    \E v \in VaultIds, newPasswordType \in PasswordTypes \cup {"unset"},
       newStorageMode \in StorageModes \cup {"unset"} :
        /\ IsListed(v)
        /\ ~isSharedVaultListing(v)
        /\ newPasswordType # listing[v].keyPasswordType
        /\ newStorageMode # listing[v].keyStorageMode
        /\ LET r == ChangeOptionsOutcome(v, newPasswordType, newStorageMode)
           IN /\ listing' = r.listing
              /\ last' = Step("changeVaultOptions", v,
                              OptionsArg(newPasswordType, newStorageMode),
                              r.ret, r.events, r.calls)
        /\ UNCHANGED <<rootKey, itemsKey, itemVault, lockMap, unlockTask, addTask>>

\* ------------------------------------------------------------ the service
Next ==
    \/ createRandomizedVault
    \/ createUserInputtedPasswordVault
    \/ SharedVaultArrives
    \/ addItemToVault
    \/ removeItemFromVault
    \/ deleteVault
    \/ changeVaultNameAndDescription
    \/ rotateVaultRootKey
    \/ changeVaultOptions
    \/ lockNonPersistentVault
    \/ unlockNonPersistentVault
    \/ recomputeAllVaultsLockingState
    \/ ExternalKeyChange

Spec == Init /\ [][Next]_vars

\* ----------------------------------------------------- suspended calls
\* unlockNonPersistentVault up to its await of decryptErroredPayloads: the
\* guards, the derivation and the intake
unlockCall ==
    \E v \in VaultIds, password \in Passwords :
        /\ IsListed(v)
        /\ unlockTask = Idle
        /\ UnlockGuard(v) = "ok"
        /\ rootKey' = intakeNonPersistentKeySystemRootKey(rootKey, v,
                          deriveUserInputtedKeySystemRootKey(password))
        /\ unlockTask' = [pc |-> "decrypt", vault |-> v, password |-> password]
        /\ last' = Step("unlockNonPersistentVault:call", v,
                        PasswordArg(password, LockMapEntry(v)), "pending", <<>>, <<>>)
        /\ UNCHANGED <<listing, itemsKey, itemVault, lockMap, addTask>>

\* encryption.decryptErroredPayloads() does its work while the call waits
unlockDecrypt ==
    /\ unlockTask.pc = "decrypt"
    /\ itemsKey' = decryptErroredPayloads(rootKey, itemsKey)
    /\ unlockTask' = [unlockTask EXCEPT !.pc = "resume"]
    /\ last' = Step("decryptErroredPayloads", unlockTask.vault, NoArg, "ok", <<>>, <<>>)
    /\ UNCHANGED <<listing, rootKey, itemVault, lockMap, addTask>>

\* unlockNonPersistentVault from its await to its return
unlockReturn ==
    /\ unlockTask.pc = "resume"
    /\ LET v == unlockTask.vault
           r == UnlockResume(rootKey, itemsKey, lockMap, v)
       IN /\ rootKey' = r.root
          /\ lockMap' = r.map
          /\ last' = Step("unlockNonPersistentVault:return", v,
                          PasswordArg(unlockTask.password, LockMapEntry(v)),
                          r.ret, r.events, <<>>)
    /\ unlockTask' = Idle
    /\ UNCHANGED <<listing, itemsKey, itemVault, addTask>>

\* addItemToVault up to its await of removeItemFromVault, for an item that
\* is in a vault: the checks of both, and the Remove use case
addCall ==
    \E v \in VaultIds, i \in ItemIds :
        /\ IsListed(v)
        /\ addTask = Idle
        /\ ~isVaultLocked(v)
        /\ getItemVault(i) # NoVault
        /\ RemoveOutcome(i).ret = "ok"
        /\ itemVault' = RemoveOutcome(i).iv
        /\ addTask' = [pc |-> "removed", vault |-> v, item |-> i]
        /\ last' = Step("addItemToVault:call", v, ItemArg(i, getItemVault(i)),
                        "pending", <<>>, RemoveOutcome(i).calls)
        /\ UNCHANGED <<listing, rootKey, itemsKey, lockMap, unlockTask>>

\* addItemToVault from that await to its return: the Add use case
addReturn ==
    /\ addTask.pc = "removed"
    /\ itemVault' = AddItemsToVaultUseCase(itemVault, addTask.vault, addTask.item)
    /\ last' = Step("addItemToVault:return", addTask.vault,
                    ItemArg(addTask.item, getItemVault(addTask.item)), "ok", <<>>,
                    <<"AddItemsToVault">>)
    /\ addTask' = Idle
    /\ UNCHANGED <<listing, rootKey, itemsKey, lockMap, unlockTask>>

\* the service with its calls suspended at their awaits, other calls and the
\* observer running in between
NextAsync ==
    \/ createRandomizedVault
    \/ createUserInputtedPasswordVault
    \/ lockNonPersistentVault
    \/ unlockCall
    \/ unlockDecrypt
    \/ unlockReturn
    \/ addItemToVault
    \/ addCall
    \/ addReturn
    \/ removeItemFromVault
    \/ recomputeAllVaultsLockingState
    \/ ExternalKeyChange

SpecAsync == Init /\ [][NextAsync]_vars

\* ------------------------------------------------------------ the observer
\* the steps after which the item index reports a mutation of a
\* KeySystemItemsKey, KeySystemRootKey or VaultListing item
ReportedOps ==
    {"ExternalKeyChange", "createRandomizedVault", "createUserInputtedPasswordVault"}

\* the item index is calling its observers
ObserverPending == last.op \in ReportedOps

\* the observer registered in the constructor: a reported mutation runs
\* recomputeAllVaultsLockingState before any other task of the service
observer == ObserverPending /\ recomputeAllVaultsLockingState

\* the locking calls of the service, suspended at their awaits, with the
\* observer run on every reported mutation
NextObserved ==
    \/ observer
    \/ /\ ~ObserverPending
       /\ \/ createRandomizedVault
          \/ createUserInputtedPasswordVault
          \/ lockNonPersistentVault
          \/ unlockCall
          \/ unlockDecrypt
          \/ unlockReturn
          \/ ExternalKeyChange

\* the observers of a reported mutation are called, and an awaited
\* collaborator returns
SpecObserved ==
    /\ Init
    /\ [][NextObserved]_vars
    /\ WF_vars(observer)
    /\ WF_vars(unlockDecrypt)
    /\ WF_vars(unlockReturn)

\* ------------------------------------------------------------------ claims
Recompute == "recomputeAllVaultsLockingState"
Lock == "lockNonPersistentVault"
Unlock == "unlockNonPersistentVault"

\* C1 as stated: after a completed recompute pass every listed vault is
\* reported locked exactly when both its root key and its items key are
\* present
C1_LockedIffKeysPresent ==
    last.op = Recompute =>
        \A v \in VaultIds : IsListed(v) =>
            (isVaultLocked(v) <=> (rootKeyPresent(v) /\ itemsKeyPresent(v)))

\* C1 amended: after a completed recompute pass every listed vault is
\* reported locked exactly when its root key or its items key is missing
C1_LockedIffKeyMissing ==
    last.op = Recompute =>
        \A v \in VaultIds : IsListed(v) =>
            (isVaultLocked(v) <=> ~(rootKeyPresent(v) /\ itemsKeyPresent(v)))

\* a pass that wrote the lock map, leaving one vault locked for its missing
\* items key alone and another unlocked
C1_Witness ==
    /\ last.op = Recompute
    /\ last.events # <<>>
    /\ \E v, w \in VaultIds :
        /\ IsListed(v) /\ IsListed(w)
        /\ isVaultLocked(v) /\ rootKeyPresent(v) /\ ~itemsKeyPresent(v)
        /\ w \in DOMAIN lockMap /\ ~isVaultLocked(w)

\* C2: unlockNonPersistentVault with a wrong password, on a user-inputted
\* vault that is not synced, returns false and leaves the key store as it
\* was before the call
C2_WrongPasswordUndone ==
    [][(last'.op = Unlock /\ ~Threw(last') /\ last'.arg.password = "wrong")
        => (last'.ret = "false" /\ rootKey' = rootKey /\ itemsKey' = itemsKey)]_vars

\* C3: unlockNonPersistentVault with the correct password, on a locked
\* user-inputted vault that is not synced, returns true, keeps the derived
\* root key in the key store, writes false into the lock map and emits
\* VaultUnlocked for the vault
C3_CorrectPasswordUnlocks ==
    [][(/\ last'.op = Unlock
        /\ ~Threw(last')
        /\ last'.arg.password = "correct"
        /\ (isVaultLocked(last'.vault) \/ computeVaultLockState(last'.vault) = "locked"))
        => (/\ last'.ret = "true"
            /\ rootKey'[last'.vault] = deriveUserInputtedKeySystemRootKey("correct")
            /\ last'.vault \in DOMAIN lockMap'
            /\ lockMap'[last'.vault] = FALSE
            /\ last'.events = <<Event(VaultUnlocked, last'.vault)>>)]_vars

\* a vault that the lock map held locked has been unlocked with its password
C3_Witness ==
    /\ last.op = Unlock
    /\ last.arg.password = "correct"
    /\ last.arg.before = "locked"
    /\ last.ret = "true"
    /\ computeVaultLockState(last.vault) = "unlocked"

\* C4: right after lockNonPersistentVault on a vault that is not synced,
\* whatever the lock map held before, computeVaultLockState yields locked and
\* isVaultLocked is true
C4_LockedAfterLock ==
    (last.op = Lock /\ listing[last.vault].keyStorageMode # "Synced") =>
        /\ last.ret = "ok"
        /\ computeVaultLockState(last.vault) = "locked"
        /\ isVaultLocked(last.vault)

\* a vault that the lock map held unlocked has been locked
C4_Witness ==
    /\ last.op = Lock
    /\ last.ret = "ok"
    /\ last.arg.before = "unlocked"

\* C5: lockNonPersistentVault on a synced vault throws, and neither the lock
\* map nor the key store changes and no event is emitted
C5_LockSyncedRejected ==
    [][(last'.op = Lock /\ listing[last'.vault].keyStorageMode = "Synced")
        => (/\ last'.ret = ErrLockSynced
            /\ lockMap' = lockMap
            /\ rootKey' = rootKey
            /\ itemsKey' = itemsKey
            /\ last'.events = <<>>)]_vars

\* locking a synced vault whose keys are in the store has been refused
C5_Witness ==
    /\ last.op = Lock
    /\ last.ret = ErrLockSynced
    /\ rootKeyPresent(last.vault)
    /\ itemsKeyPresent(last.vault)

\* C6: unlockNonPersistentVault on a vault whose password type is not
\* UserInputted, or whose storage mode is Synced, throws for every password:
\* the key store and the lock map stay as they are and no event is emitted
C6_UnlockGuardRejects ==
    [][(/\ last'.op = Unlock
        /\ \/ listing[last'.vault].keyPasswordType # "UserInputted"
           \/ listing[last'.vault].keyStorageMode = "Synced")
        => (/\ Threw(last')
            /\ rootKey' = rootKey
            /\ itemsKey' = itemsKey
            /\ lockMap' = lockMap
            /\ last'.events = <<>>
            /\ last'.calls = <<>>)]_vars

\* a randomized vault that was locked has refused a password and is still
\* locked
C6_Witness ==
    /\ last.op = Unlock
    /\ last.ret = ErrUnlockRandomized
    /\ last.arg.before = "locked"
    /\ isVaultLocked(last.vault)
    /\ ~rootKeyPresent(last.vault)

\* a step that ran no use case, made no sync, emitted nothing and left the
\* item index, the key store and the lock map as they were
NoSideEffect ==
    /\ last'.calls = <<>>
    /\ last'.events = <<>>
    /\ UNCHANGED <<listing, rootKey, itemsKey, itemVault, lockMap>>

\* C7: addItemToVault, removeItemFromVault, rotateVaultRootKey and
\* changeVaultOptions on a vault that isVaultLocked reports locked fail with
\* the locked-vault error before any side effect
C7_LockedVaultRejected ==
    [][(/\ last'.op \in {"addItemToVault", "removeItemFromVault",
                         "rotateVaultRootKey", "changeVaultOptions"}
        /\ isVaultLocked(last'.vault))
        => (/\ last'.ret \in {ErrAddLocked, ErrRemoveLocked, ErrRotateLocked,
                              ErrOptionsLocked}
            /\ NoSideEffect)]_vars

\* C8: addItemToVault(B, item) for an item in another vault A, both
\* unlocked, runs the Remove use case and then the Add use case, and leaves
\* the item in B and in no other vault
C8_ItemRehomed ==
    [][(/\ last'.op = "addItemToVault"
        /\ ~isVaultLocked(last'.vault)
        /\ getItemVault(last'.arg.item) \notin {NoVault, last'.vault}
        /\ ~isVaultLocked(getItemVault(last'.arg.item)))
        => (/\ last'.ret = "ok"
            /\ last'.calls = <<"RemoveItemFromVault", "AddItemsToVault">>
            /\ itemVault'[last'.arg.item] = last'.vault
            /\ listing'[last'.vault].state = "listed"
            /\ \A a \in VaultIds \ {last'.vault} : itemVault'[last'.arg.item] # a)]_vars

\* an item of one listed vault has been added to another
C8_Witness ==
    /\ last.op = "addItemToVault"
    /\ last.ret = "ok"
    /\ last.arg.from \notin {NoVault, last.vault}
    /\ IsListed(last.arg.from)
    /\ getItemVault(last.arg.item) = last.vault

\* C9: deleteVault on a shared vault listing throws: the Delete use case is
\* not run, sync() is not called, and the keys and the listing stay
C9_SharedDeleteRejected ==
    [][(last'.op = "deleteVault" /\ isSharedVaultListing(last'.vault))
        => (/\ last'.ret = ErrSharedDelete
            /\ last'.calls = <<>>
            /\ listing' = listing
            /\ rootKey' = rootKey
            /\ itemsKey' = itemsKey)]_vars

\* the deletion of a shared vault has been refused
C9_Witness ==
    /\ last.op = "deleteVault"
    /\ last.ret = ErrSharedDelete
    /\ IsListed(last.vault)
    /\ rootKeyPresent(last.vault)

\* C10: deleteVault on a personal vault returns false without calling sync()
\* when the Delete use case reports a displayable error, and otherwise calls
\* sync() once, after the use case, and returns true
C10_SyncIffDeleted ==
    (last.op = "deleteVault" /\ ~Threw(last)) =>
        IF last.arg.useCaseError
        THEN last.ret = "false" /\ last.calls = <<"DeleteVault">>
        ELSE last.ret = "true" /\ last.calls = <<"DeleteVault", "sync">>

\* a failed deletion has left the listing in place
C10_Witness ==
    /\ last.op = "deleteVault"
    /\ last.arg.useCaseError
    /\ last.ret = "false"
    /\ IsListed(last.vault)

\* the vaults a sequence of vaults holds
Range(seq) == {seq[k] : k \in DOMAIN seq}

\* C11: in every state getLockedvaults() returns, in the order of
\* getVaults(), each listed vault whose lock-map entry is true once, and no
\* other vault
C11_LockedVaultsExact ==
    /\ Range(getLockedvaults) = {v \in VaultIds : IsListed(v) /\ LockMapEntry(v) = "locked"}
    /\ Len(getLockedvaults) = Cardinality(Range(getLockedvaults))
    /\ \A j, k \in DOMAIN getLockedvaults : j < k => getLockedvaults[j] < getLockedvaults[k]

\* two listed vaults, the second locked and the first unlocked in the lock
\* map: getLockedvaults() is the second alone
C11_Witness ==
    /\ IsListed(1) /\ IsListed(2)
    /\ LockMapEntry(1) = "unlocked"
    /\ LockMapEntry(2) = "locked"
    /\ getLockedvaults = <<2>>

\* C12: isVaultLocked(v) is true exactly when the lock map holds true for v;
\* a vault just created, which has no entry, is reported unlocked, and a
\* vault that lockNonPersistentVault has locked is reported locked
C12_FailOpen ==
    /\ \A v \in VaultIds : isVaultLocked(v) <=> LockMapEntry(v) = "locked"
    /\ \A v \in VaultIds : LockMapEntry(v) = "undefined" => ~isVaultLocked(v)
    /\ last.op \in {"createRandomizedVault", "createUserInputtedPasswordVault"} =>
            LockMapEntry(last.vault) = "undefined" /\ ~isVaultLocked(last.vault)
    /\ (last.op = Lock /\ ~Threw(last)) => isVaultLocked(last.vault)

\* a randomized vault that had no entry in the lock map has been locked,
\* while another vault still has no entry
C12_Witness ==
    /\ last.op = Lock
    /\ last.ret = "ok"
    /\ last.arg.before = "undefined"
    /\ listing[last.vault].keyPasswordType = "Randomized"
    /\ isVaultLocked(last.vault)
    /\ \E w \in VaultIds : IsListed(w) /\ LockMapEntry(w) = "undefined"

\* C13: changeVaultOptions on a vault the lock map does not hold locked runs
\* the ChangeVaultKeyOptions use case and, if the DTO names a new password
\* type, emits one VaultRootKeyRotated event for the vault after the use
\* case has completed; a DTO without a new password type emits no event
C13_RotatedIffNewPasswordType ==
    [][(last'.op = "changeVaultOptions" /\ ~isVaultLocked(last'.vault))
        => (/\ last'.ret = "ok"
            /\ last'.calls = <<"ChangeVaultKeyOptions">>
            /\ IF last'.arg.newPasswordType # "unset"
               THEN last'.events =
                        <<[type |-> VaultRootKeyRotated, vault |-> last'.vault,
                           after |-> Len(last'.calls)]>>
               ELSE last'.events = <<>>)]_vars

\* the password type of an unlocked vault has been changed, and the event
\* came after the use case
C13_Witness ==
    /\ last.op = "changeVaultOptions"
    /\ last.ret = "ok"
    /\ last.arg.newPasswordType = "UserInputted"
    /\ listing[last.vault].keyPasswordType = "UserInputted"
    /\ Len(last.events) = 1
    /\ last.events[1].type = VaultRootKeyRotated
    /\ last.events[1].after = 1

\* the lock map holds, for every listed vault, the lock state the key store
\* yields
LockMapConsistent ==
    \A v \in VaultIds : IsListed(v) =>
        /\ v \in DOMAIN lockMap
        /\ lockMap[v] = (computeVaultLockState(v) = "locked")

\* C14: once the item index has reported a mutation of key material or of a
\* listing, the lock map comes to hold for every listed vault the lock
\* state its keys yield, and it holds it as long as the key store does not
\* change
C14_EventuallyConsistent ==
    /\ ObserverPending ~> LockMapConsistent
    /\ [][(LockMapConsistent /\ rootKey' = rootKey /\ itemsKey' = itemsKey)
            => LockMapConsistent']_vars

\* keys cleared outside the service have been reported, the observer has
\* marked the vault locked, and a call of unlockNonPersistentVault that was
\* suspended meanwhile has returned
C14_Witness ==
    /\ last.op = "unlockNonPersistentVault:return"
    /\ last.arg.before = "locked"
    /\ LockMapConsistent
    /\ \E v \in VaultIds : IsListed(v) /\ isVaultLocked(v)
    /\ \E w \in VaultIds : IsListed(w) /\ LockMapEntry(w) = "unlocked"

\* C15: computeVaultLockState(v) is unlocked exactly when the root key and
\* the items key of v are both in the key store, and locked otherwise; and
\* right after a recompute pass the lock map holds, for every listed vault,
\* true if computeVaultLockState(v) is locked and false if it is unlocked
C15_ComputedLockState ==
    /\ \A v \in VaultIds :
        /\ computeVaultLockState(v) \in {"locked", "unlocked"}
        /\ computeVaultLockState(v) = "unlocked" <=>
                (rootKeyPresent(v) /\ itemsKeyPresent(v))
    /\ last.op = Recompute =>
            \A v \in VaultIds : IsListed(v) =>
                LockMapEntry(v) = computeVaultLockState(v)

\* a pass has marked one vault locked for its missing root key alone, the
\* other unlocked
C15_Witness ==
    /\ last.op = Recompute
    /\ \E v, w \in VaultIds :
        /\ IsListed(v) /\ IsListed(w)
        /\ ~rootKeyPresent(v) /\ itemsKeyPresent(v) /\ LockMapEntry(v) = "locked"
        /\ rootKeyPresent(w) /\ itemsKeyPresent(w) /\ LockMapEntry(w) = "unlocked"
        /\ Event(VaultLocked, v) \in Range(last.events)

\* the events of a step that carry vault v
EventsOf(step, v) == SelectSeq(step.events, LAMBDA e : e.vault = v)

\* C16: a recompute pass emits, for every listed vault whose freshly
\* computed lock state differs from the lock-map entry, one event
\* (VaultLocked if the state is locked, VaultUnlocked if it is unlocked) and
\* writes the state into the lock map; for a vault whose entry equals the
\* fresh state it writes nothing and emits nothing; no other vault gets an
\* event
C16_EventIffDiffers ==
    [][last'.op = Recompute =>
        /\ \A v \in VaultIds : IsListed(v) =>
            IF LockMapEntry(v) # computeVaultLockState(v)
            THEN /\ EventsOf(last', v) =
                        <<Event(IF computeVaultLockState(v) = "locked"
                                THEN VaultLocked ELSE VaultUnlocked, v)>>
                 /\ LockMapEntry(v)' = computeVaultLockState(v)
            ELSE /\ EventsOf(last', v) = <<>>
                 /\ LockMapEntry(v)' = LockMapEntry(v)
        /\ \A v \in VaultIds : ~IsListed(v) =>
            /\ EventsOf(last', v) = <<>>
            /\ LockMapEntry(v)' = LockMapEntry(v)]_vars

\* a pass over two vaults has emitted VaultLocked for the one whose entry
\* was stale and nothing for the other, whose entry it left in place
C16_Witness ==
    /\ last.op = Recompute
    /\ \E v, w \in VaultIds :
        /\ IsListed(v) /\ IsListed(w)
        /\ last.events = <<Event(VaultLocked, v)>>
        /\ LockMapEntry(v) = "locked"
        /\ LockMapEntry(w) = "unlocked"

UnlockReturn == "unlockNonPersistentVault:return"

\* the step wrote the lock-map entry of v: lockNonPersistentVault that did
\* not throw, unlockNonPersistentVault that returned true, a recompute pass
\* that emitted for v, or any step after which the entry is another
WroteLockMap(v) ==
    \/ LockMapEntry(v)' # LockMapEntry(v)
    \/ last'.op = Lock /\ last'.vault = v /\ ~Threw(last')
    \/ last'.op = UnlockReturn /\ last'.vault = v /\ last'.ret = "true"
    \/ last'.op = Recompute /\ EventsOf(last', v) # <<>>

\* C17: with lockNonPersistentVault, the suspended unlockNonPersistentVault
\* and recompute passes interleaved in every order, each write of a
\* lock-map entry stores the lock state that the key store yields at the
\* instant of the write
C17_WritesMatchKeyStore ==
    [][\A v \in VaultIds :
        WroteLockMap(v) => LockMapEntry(v)' = computeVaultLockState(v)']_vars

\* a call of unlockNonPersistentVault with a wrong password on a locked
\* vault, suspended while the key store was changed from outside, has
\* returned true and written the entry
C17_Witness ==
    /\ last.op = UnlockReturn
    /\ last.ret = "true"
    /\ last.arg.before = "locked"
    /\ last.arg.password = "wrong"
    /\ LockMapEntry(last.vault) = "unlocked"

\* C18: addItemToVault does not run the Add use case on a vault that the
\* lock map holds locked when the use case starts, also when the call was
\* suspended in removeItemFromVault meanwhile
C18_NoAddToLockedVault ==
    [][(/\ last'.op \in {"addItemToVault", "addItemToVault:return"}
        /\ "AddItemsToVault" \in Range(last'.calls))
        => ~isVaultLocked(last'.vault)]_vars

\* Map.get(v) === true on the lock map m
LockedIn(m, v) == v \in DOMAIN m /\ m[v] = TRUE

\* C19: VaultLocked is emitted for a vault only by a step that takes
\* isVaultLocked from false to true, and VaultUnlocked only by a step that
\* takes it from true to false
C19_EventsAreTransitions ==
    [][\A k \in DOMAIN last'.events :
        LET e == last'.events[k]
        IN /\ e.type = VaultLocked =>
                (~LockedIn(lockMap, e.vault) /\ LockedIn(lockMap', e.vault))
           /\ e.type = VaultUnlocked =>
                (LockedIn(lockMap, e.vault) /\ ~LockedIn(lockMap', e.vault))]_vars

\* C20: a call of unlockNonPersistentVault that returns false has written
\* nothing into the lock map and emitted nothing, at its call, while it was
\* suspended, and at its return
C20_FailedUnlockWritesNothing ==
    [][(\/ last'.op \in {"unlockNonPersistentVault:call", "decryptErroredPayloads"}
        \/ last'.op = UnlockReturn /\ last'.ret = "false")
        => (lockMap' = lockMap /\ last'.events = <<>>)]_vars

\* a call on a vault whose keys were cleared from outside, before any pass
\* saw it, has returned false and the lock map still holds the vault
\* unlocked
C20_Witness ==
    /\ last.op = UnlockReturn
    /\ last.ret = "false"
    /\ last.arg.before = "unlocked"
    /\ LockMapEntry(last.vault) = "unlocked"
    /\ computeVaultLockState(last.vault) = "locked"
====
